---- MODULE Spec2Model ----
(***************************************************************************)
(* Curriculum markup compiler of src/frontend/teacher_dashboard.py:        *)
(* ContentValidator (validate_content and its three rule passes) and       *)
(* ContentParser (parse_content and its extraction helpers) over documents *)
(* represented character by character, a validator instance shared by      *)
(* several callers, create_lecture_from_parsed_content and the session     *)
(* state of the import page.                                               *)
(***************************************************************************)
EXTENDS Integers, Sequences, FiniteSets, TLC

VARIABLES content_input, typed, content, pc, errors, warnings, suggestions, result,
          parsed, body, duration, examples, inquiry_prompts,
          heap, instance, calls, returned, started,
          importer, posted, session_state

vars == <<content_input, typed, content, pc, errors, warnings, suggestions, result,
          parsed, body, duration, examples, inquiry_prompts,
          heap, instance, calls, returned, started,
          importer, posted, session_state>>

(* What one validate_content call and its caller hold. *)
validator_vars == <<content_input, typed, content, pc, errors, warnings, suggestions, result>>

(* What the parser side holds: the lecture parse_content returned, and the *)
(* section body and result of a direct _estimate_duration call.             *)
parser_vars == <<parsed, body, duration>>

(* The results of direct _extract_code_blocks and _extract_inquiry_prompts *)
(* calls on a section body.                                                 *)
extract_vars == <<examples, inquiry_prompts>>

(* A ContentValidator instance shared by several callers: the list objects *)
(* of the process (heap), the instance's three attributes as references     *)
(* into it, every caller's position in validate_content, the reports        *)
(* returned so far and the number of calls started.                         *)
instance_vars == <<heap, instance, calls, returned, started>>

(* A create_lecture_from_parsed_content call: its arguments, locals and    *)
(* position, and the requests it has posted to the backend with what came   *)
(* back for each.                                                           *)
import_vars == <<importer, posted>>

(* Everything outside the validator and the lecture parser; session_state *)
(* is st.session_state of the import page.                                  *)
other_vars == <<extract_vars, instance_vars, import_vars, session_state>>

(* Number of text fragments the caller may put into one document. *)
MaxEdits == 3

----------------------------------------------------------------------------
(* Text fragments the caller composes documents from. *)

TitleLine == <<"#","#","#"," ","l","e","c","t","u","r","e"," ","t","i","t","l","e",":","T","\n">>
EmptyTitleLine == <<"#","#","#"," ","L","e","c","t","u","r","e"," ","T","i","t","l","e"," ",":"," ","\n">>
EmptyDescLine == <<"#","#","#"," ","D","e","s","c","r","i","p","t","i","o","n"," ",":"," ","\n">>
BlankLine == <<" ","\n">>
Marker1 == <<"#"," ","$","1","\n">>
Marker2 == <<"#"," ","$","2","\n">>
Marker3 == <<"#"," ","$","3","\n">>
Word == <<"x">>
Hash == <<"#">>

Fragments == {TitleLine, EmptyTitleLine, EmptyDescLine, BlankLine, Marker1, Marker2, Marker3, Word, Hash}

----------------------------------------------------------------------------
(* Character classes and string helpers of Python's str / re. *)

IsSpace(c) == c \in {" ", "\n", "\t"}

IsDigit(c) == c \in {"0","1","2","3","4","5","6","7","8","9"}

DigitVal(c) == CASE c = "0" -> 0 [] c = "1" -> 1 [] c = "2" -> 2 [] c = "3" -> 3 [] c = "4" -> 4
                 [] c = "5" -> 5 [] c = "6" -> 6 [] c = "7" -> 7 [] c = "8" -> 8 [] c = "9" -> 9

Lower(c) == CASE c = "L" -> "l" [] c = "T" -> "t" [] c = "D" -> "d" [] OTHER -> c

Min(S) == CHOOSE x \in S : \A y \in S : x <= y

Max(S) == CHOOSE x \in S : \A y \in S : y <= x

strip(s) ==
    LET keep == {i \in 1..Len(s) : ~IsSpace(s[i])}
    IN  IF keep = {} THEN <<>> ELSE SubSeq(s, Min(keep), Max(keep))

RECURSIVE int(_)
int(s) == IF s = <<>> THEN 0 ELSE 10 * int(SubSeq(s, 1, Len(s) - 1)) + DigitVal(s[Len(s)])

(* First index >= i whose character is not whitespace, Len(d)+1 if none. *)
SkipSpace(d, i) ==
    LET stop == {k \in i..Len(d) : ~IsSpace(d[k])}
    IN  IF stop = {} THEN Len(d) + 1 ELSE Min(stop)

(* First index >= i holding a newline, Len(d)+1 if none. *)
LineEnd(d, i) ==
    LET stop == {k \in i..Len(d) : d[k] = "\n"}
    IN  IF stop = {} THEN Len(d) + 1 ELSE Min(stop)

(* First index >= i whose character is not a digit, Len(d)+1 if none. *)
DigitsEnd(d, i) ==
    LET stop == {k \in i..Len(d) : ~IsDigit(d[k])}
    IN  IF stop = {} THEN Len(d) + 1 ELSE Min(stop)

----------------------------------------------------------------------------
(* The header pattern  <literal>\s*:\s*(.+)  searched with re.IGNORECASE.   *)

LectureTitleLit == <<"#","#","#"," ","L","e","c","t","u","r","e"," ","T","i","t","l","e">>

DescriptionLit == <<"#","#","#"," ","D","e","s","c","r","i","p","t","i","o","n">>

LiteralAt(d, i, lit) ==
    /\ i + Len(lit) - 1 <= Len(d)
    /\ \A k \in 1..Len(lit) : Lower(d[i + k - 1]) = Lower(lit[k])

(* Index where group 1 starts when the pattern matches at i, 0 when it does *)
(* not.  \s* is greedy and backtracks; '.' matches anything but a newline.  *)
HeaderGroupStart(d, i, lit) ==
    IF ~LiteralAt(d, i, lit) THEN 0
    ELSE LET colon == SkipSpace(d, i + Len(lit))
         IN  IF colon > Len(d) \/ d[colon] # ":" THEN 0
             ELSE LET k == SkipSpace(d, colon + 1)
                      S == {s \in (colon + 1)..k : s <= Len(d) /\ d[s] # "\n"}
                  IN  IF S = {} THEN 0 ELSE Max(S)

(* re.search: <<>> when there is no match, else <<group(1)>> of the         *)
(* leftmost match.                                                          *)
re_search_header(d, lit) ==
    LET starts == {i \in 1..Len(d) : HeaderGroupStart(d, i, lit) # 0}
    IN  IF starts = {} THEN <<>>
        ELSE LET s == HeaderGroupStart(d, Min(starts), lit)
             IN  <<SubSeq(d, s, LineEnd(d, s) - 1)>>

----------------------------------------------------------------------------
(* The marker pattern  # \$(\d+)  as scanned by re.findall and re.split.    *)

MarkerAt(d, i) ==
    /\ i + 3 <= Len(d)
    /\ d[i] = "#" /\ d[i + 1] = " " /\ d[i + 2] = "$"
    /\ IsDigit(d[i + 3])

(* Non-overlapping matches, left to right: [start, digits, stop), stop      *)
(* exclusive.                                                               *)
RECURSIVE finditer(_, _)
finditer(d, i) ==
    LET starts == {k \in i..Len(d) : MarkerAt(d, k)}
    IN  IF starts = {} THEN <<>>
        ELSE LET m == Min(starts)
                 e == DigitsEnd(d, m + 3)
             IN  <<[start |-> m, digits |-> SubSeq(d, m + 3, e - 1), stop |-> e]>> \o finditer(d, e)

subtopic_matches(d) == finditer(d, 1)

(* numbers = [int(match) for match in subtopic_matches] *)
numbers_of(d) ==
    LET ms == subtopic_matches(d)
    IN  [k \in 1..Len(ms) |-> int(ms[k].digits)]

(* re.split(r'# \$\d+', content): the texts around the matches. *)
re_split(d) ==
    LET ms == subtopic_matches(d)
        n  == Len(ms)
    IN  [k \in 1..(n + 1) |->
            SubSeq(d, IF k = 1 THEN 1 ELSE ms[k - 1].stop,
                      IF k = n + 1 THEN Len(d) ELSE ms[k].start - 1)]

----------------------------------------------------------------------------
(* Findings.  A message is its fixed text and the numbers formatted into it *)
(* (each number n is rendered as "$n", joined by ", ").                     *)

Msg(text, args) == [text |-> text, args |-> args]

E_EMPTY      == Msg("Content cannot be empty", <<>>)
E_NO_HEADER  == Msg("Missing required header: '### Lecture Title :'", <<>>)
S_NO_HEADER  == Msg("Add '### Lecture Title : Your Title Here' at the beginning", <<>>)
E_NO_TITLE   == Msg("Lecture title cannot be empty", <<>>)
S_NO_TITLE   == Msg("Provide a meaningful title after '### Lecture Title :'", <<>>)
W_NO_DESC    == Msg("Description header found but content is empty", <<>>)
E_NO_MARKERS == Msg("No subtopics found. Must have at least '# $1'", <<>>)
S_NO_MARKERS == Msg("Add subtopic sections using '# $1', '# $2', etc.", <<>>)
E_SEQ_lists_expected(ns) == Msg("Subtopics must be numbered sequentially starting from $1. Found: ", [k \in 1..Len(ns) |-> k])
E_SEQ(ns)    == Msg("Subtopics must be numbered sequentially starting from $1. Found: ", ns)
S_SEQ(ns)    == Msg("Use sequential numbering: ", ns)
E_DUP(ns)    == Msg("Duplicate subtopic numbers found: ", ns)
S_DUP        == Msg("Each subtopic number should be unique", <<>>)
E_FIRST      == Msg("First subtopic must be '# $1'", <<>>)
S_FIRST      == Msg("Start subtopic numbering with '# $1'", <<>>)
W_EMPTY(i)   == Msg("Subtopic $ appears to be empty", <<i>>)
S_EMPTY(i)   == Msg("Add content after '# $' marker", <<i>>)
W_SHORT(i)   == Msg("Subtopic $ seems very short (less than 20 characters)", <<i>>)

Range(s) == {s[k] : k \in 1..Len(s)}

count(s, n) == Cardinality({k \in 1..Len(s) : s[k] = n})

RECURSIVE Ascending(_)
Ascending(S) == IF S = {} THEN <<>> ELSE <<Min(S)>> \o Ascending(S \ {Min(S)})

duplicates_all_numbers(numbers) == Ascending(Range(numbers))

(* [n for n in set(numbers) if numbers.count(n) > 1]; the set is walked in  *)
(* ascending order, as CPython does for small non-negative integers.        *)
duplicates(numbers) == Ascending({n \in Range(numbers) : count(numbers, n) > 1})

expected_from_zero(numbers) == [k \in 1..Len(numbers) |-> k - 1]

expected(numbers) == [k \in 1..Len(numbers) |-> k]

----------------------------------------------------------------------------
(* The rule passes of ContentValidator.  self is the instance's three       *)
(* lists, [errors, warnings, suggestions]; each pass returns them extended. *)

not_sequential_checks_last(numbers) == Len(numbers) > numbers[Len(numbers)]

(* numbers != expected *)
not_sequential(numbers) == numbers # expected(numbers)

(* len(numbers) != len(set(numbers)) *)
has_duplicates(numbers) == Len(numbers) # Cardinality(Range(numbers))

first_not_one_checks_last(numbers) == numbers[Len(numbers)] # 1

(* the first-marker test on a non-empty list: numbers[0] != 1 *)
first_not_one(numbers) == numbers[1] # 1

_validate_headers(self, d) ==
    LET title_match == re_search_header(d, LectureTitleLit)
        desc_match  == re_search_header(d, DescriptionLit)
        title_errs  == IF title_match = <<>> THEN <<E_NO_HEADER>>
                       ELSE IF strip(title_match[1]) = <<>> THEN <<E_NO_TITLE>>
                       ELSE <<>>
        title_sugg  == IF title_match = <<>> THEN <<S_NO_HEADER>>
                       ELSE IF strip(title_match[1]) = <<>> THEN <<S_NO_TITLE>>
                       ELSE <<>>
        desc_warn   == IF desc_match # <<>> /\ strip(desc_match[1]) = <<>>
                       THEN <<W_NO_DESC>> ELSE <<>>
    IN  [errors      |-> self.errors \o title_errs,
         warnings    |-> self.warnings \o desc_warn,
         suggestions |-> self.suggestions \o title_sugg]

_validate_subtopics_duplicates_first(self, d) ==
    LET numbers == numbers_of(d)
    IN  IF numbers = <<>>
        THEN [errors      |-> Append(self.errors, E_NO_MARKERS),
              warnings    |-> self.warnings,
              suggestions |-> Append(self.suggestions, S_NO_MARKERS)]
        ELSE LET seq   == not_sequential(numbers)
                 dup   == has_duplicates(numbers)
                 first == first_not_one(numbers)
             IN  [errors      |-> self.errors
                                    \o (IF dup THEN <<E_DUP(duplicates(numbers))>> ELSE <<>>)
                                    \o (IF seq THEN <<E_SEQ(numbers)>> ELSE <<>>)
                                    \o (IF first THEN <<E_FIRST>> ELSE <<>>),
                  warnings    |-> self.warnings,
                  suggestions |-> self.suggestions
                                    \o (IF dup THEN <<S_DUP>> ELSE <<>>)
                                    \o (IF seq THEN <<S_SEQ(expected(numbers))>> ELSE <<>>)
                                    \o (IF first THEN <<S_FIRST>> ELSE <<>>)]

_validate_subtopics(self, d) ==
    LET numbers == numbers_of(d)
    IN  IF numbers = <<>>
        THEN [errors      |-> Append(self.errors, E_NO_MARKERS),
              warnings    |-> self.warnings,
              suggestions |-> Append(self.suggestions, S_NO_MARKERS)]
        ELSE LET seq   == not_sequential(numbers)
                 dup   == has_duplicates(numbers)
                 first == first_not_one(numbers)
             IN  [errors      |-> self.errors
                                    \o (IF seq THEN <<E_SEQ(numbers)>> ELSE <<>>)
                                    \o (IF dup THEN <<E_DUP(duplicates(numbers))>> ELSE <<>>)
                                    \o (IF first THEN <<E_FIRST>> ELSE <<>>),
                  warnings    |-> self.warnings,
                  suggestions |-> self.suggestions
                                    \o (IF seq THEN <<S_SEQ(expected(numbers))>> ELSE <<>>)
                                    \o (IF dup THEN <<S_DUP>> ELSE <<>>)
                                    \o (IF first THEN <<S_FIRST>> ELSE <<>>)]

(* The loop  for i, section in enumerate(subtopic_sections, 1)  from i on. *)
RECURSIVE completeness_loop(_, _, _)
completeness_loop(self, sections, i) ==
    IF i + 1 > Len(sections) THEN self
    ELSE LET section_content == strip(sections[i + 1])
             next == IF section_content = <<>>
                     THEN [errors      |-> self.errors,
                           warnings    |-> Append(self.warnings, W_EMPTY(i)),
                           suggestions |-> Append(self.suggestions, S_EMPTY(i))]
                     ELSE IF Len(section_content) < 20
                     THEN [errors      |-> self.errors,
                           warnings    |-> Append(self.warnings, W_SHORT(i)),
                           suggestions |-> self.suggestions]
                     ELSE self
         IN  completeness_loop(next, sections, i + 1)

_validate_content_completeness(self, d) == completeness_loop(self, re_split(d), 1)

_build_result_warnings_block(self) ==
    [is_valid      |-> Len(self.errors) = 0 /\ Len(self.warnings) = 0,
     errors        |-> self.errors,
     warnings      |-> self.warnings,
     suggestions   |-> self.suggestions,
     error_count   |-> Len(self.errors),
     warning_count |-> Len(self.warnings)]

_build_result(self) ==
    [is_valid      |-> Len(self.errors) = 0,
     errors        |-> self.errors,
     warnings      |-> self.warnings,
     suggestions   |-> self.suggestions,
     error_count   |-> Len(self.errors),
     warning_count |-> Len(self.warnings)]

is_blank_only_empty_string(d) == d = <<>>

(* content.strip() is empty. *)
is_blank(d) == strip(d) = <<>>

----------------------------------------------------------------------------
(* The extraction helpers of ContentParser.                                 *)

DigitChar(n) == CASE n = 0 -> "0" [] n = 1 -> "1" [] n = 2 -> "2" [] n = 3 -> "3" [] n = 4 -> "4"
                  [] n = 5 -> "5" [] n = 6 -> "6" [] n = 7 -> "7" [] n = 8 -> "8" [] n = 9 -> "9"

(* str(n) for a non-negative integer. *)
RECURSIVE str(_)
str(n) == IF n < 10 THEN <<DigitChar(n)>> ELSE str(n \div 10) \o <<DigitChar(n % 10)>>

UntitledLecture == <<"U","n","t","i","t","l","e","d"," ","L","e","c","t","u","r","e">>

SubtopicLit == <<"S","u","b","t","o","p","i","c"," ">>

(* Index where group 1 of  ^##\s*(.+)  (re.MULTILINE) starts when the      *)
(* pattern matches at i, 0 when it does not.                                *)
HeadingGroupStart(d, i) ==
    IF ~((i = 1 \/ d[i - 1] = "\n") /\ i + 1 <= Len(d) /\ d[i] = "#" /\ d[i + 1] = "#") THEN 0
    ELSE LET k == SkipSpace(d, i + 2)
             S == {s \in (i + 2)..k : s <= Len(d) /\ d[s] # "\n"}
         IN  IF S = {} THEN 0 ELSE Max(S)

(* re.search(r'^##\s*(.+)', content, re.MULTILINE): <<>> or <<group(1)>>. *)
heading_match(d) ==
    LET starts == {i \in 1..Len(d) : HeadingGroupStart(d, i) # 0}
    IN  IF starts = {} THEN <<>>
        ELSE LET s == HeadingGroupStart(d, Min(starts))
             IN  <<SubSeq(d, s, LineEnd(d, s) - 1)>>

(* re.sub(r'\[.*?\]', '', t) from index i on: every '[' with a ']' after   *)
(* it on the same line is removed up to the nearest such ']'.               *)
RECURSIVE re_sub_brackets(_, _)
re_sub_brackets(t, i) ==
    LET opening == {k \in i..Len(t) : /\ t[k] = "["
                                      /\ \E j \in (k + 1)..(LineEnd(t, k) - 1) : t[j] = "]"}
    IN  IF opening = {} THEN SubSeq(t, i, Len(t))
        ELSE LET o == Min(opening)
                 c == Min({j \in (o + 1)..Len(t) : t[j] = "]"})
             IN  SubSeq(t, i, o - 1) \o re_sub_brackets(t, c + 1)

_extract_subtopic_title(d, order_index) ==
    LET hm == heading_match(d)
        first_line == strip(SubSeq(d, 1, LineEnd(d, 1) - 1))
    IN  IF hm # <<>> THEN strip(re_sub_brackets(strip(hm[1]), 1))
        ELSE IF first_line # <<>> /\ Len(first_line) < 100 THEN first_line
        ELSE SubtopicLit \o str(order_index)

(* The pattern  \[(\d+)\s*min\]  matches at i. *)
AnnotationAt(d, i) ==
    /\ i + 1 <= Len(d)
    /\ d[i] = "["
    /\ IsDigit(d[i + 1])
    /\ LET m == SkipSpace(d, DigitsEnd(d, i + 1))
       IN  m + 3 <= Len(d) /\ d[m] = "m" /\ d[m + 1] = "i" /\ d[m + 2] = "n" /\ d[m + 3] = "]"

duration_match_last(d) ==
    LET starts == {i \in 1..Len(d) : AnnotationAt(d, i)}
    IN  IF starts = {} THEN <<>>
        ELSE <<SubSeq(d, Max(starts) + 1, DigitsEnd(d, Max(starts) + 1) - 1)>>

(* re.search(r'\[(\d+)\s*min\]', content): <<>> or <<group(1)>>. *)
duration_match(d) ==
    LET starts == {i \in 1..Len(d) : AnnotationAt(d, i)}
    IN  IF starts = {} THEN <<>>
        ELSE <<SubSeq(d, Min(starts) + 1, DigitsEnd(d, Min(starts) + 1) - 1)>>

word_count_chars(d) == Len(d)

(* len(content.split()): the number of maximal runs without whitespace. *)
word_count(d) ==
    Cardinality({i \in 1..Len(d) : ~IsSpace(d[i]) /\ (i = 1 \/ IsSpace(d[i - 1]))})

max_second(a, b) == b

max(a, b) == IF a >= b THEN a ELSE b

min_first(a, b) == a

min(a, b) == IF a <= b THEN a ELSE b

_estimate_duration(d) ==
    LET dm == duration_match(d)
    IN  IF dm # <<>> THEN int(dm[1])
        ELSE min(max(5, (word_count(d) \div 100) * 5), 60)

(* The backtick character; a string of the module cannot hold it, so it is *)
(* written as a two-letter character name.                                  *)
Backtick == "bt"

Fence == <<Backtick, Backtick, Backtick>>

PythonTag == <<"p","y","t","h","o","n">>

ExactAt(d, i, lit) ==
    /\ i + Len(lit) - 1 <= Len(d)
    /\ \A k \in 1..Len(lit) : d[i + k - 1] = lit[k]

(* The code-block pattern is  FENCE(?:python)?\n(.*?)\nFENCE  (re.DOTALL). *)
(* Where its group 1 starts when the pattern can begin at i, 0 otherwise:   *)
(* after the fence, "python" if it stands there, then a newline.            *)
CodeGroupStart(d, i) ==
    IF ~ExactAt(d, i, Fence) THEN 0
    ELSE LET a == IF ExactAt(d, i + 3, PythonTag) THEN i + 9 ELSE i + 3
         IN  IF a <= Len(d) /\ d[a] = "\n" THEN a + 1 ELSE 0

(* The newline that closes the block whose group starts at g: the first    *)
(* newline at or after g that is followed by a fence; 0 if there is none.   *)
CodeGroupStop(d, g) ==
    LET stops == {j \in g..Len(d) : d[j] = "\n" /\ ExactAt(d, j + 1, Fence)}
    IN  IF stops = {} THEN 0 ELSE Min(stops)

(* re.findall of the code-block pattern from index i on. *)
RECURSIVE code_matches(_, _)
code_matches(d, i) ==
    LET starts == {k \in i..Len(d) : CodeGroupStart(d, k) # 0 /\ CodeGroupStop(d, CodeGroupStart(d, k)) # 0}
    IN  IF starts = {} THEN <<>>
        ELSE LET g == CodeGroupStart(d, Min(starts))
                 e == CodeGroupStop(d, g)
             IN  <<SubSeq(d, g, e - 1)>> \o code_matches(d, e + 4)

CodeExampleLit == <<"C","o","d","e"," ","e","x","a","m","p","l","e"," ">>

_extract_code_blocks(d) ==
    LET ms == code_matches(d, 1)
    IN  [k \in 1..Len(ms) |-> [code |-> strip(ms[k]), explanation |-> CodeExampleLit \o str(k)]]

(* Where group 1 of  [">]\s*"([^"]+)"  starts when the pattern can begin   *)
(* at i and its opening quote is found, 0 otherwise.                        *)
QuoteGroupStart(d, i) ==
    IF ~(i <= Len(d) /\ d[i] \in {"\"", ">"}) THEN 0
    ELSE LET q == SkipSpace(d, i + 1)
         IN  IF q <= Len(d) /\ d[q] = "\"" THEN q + 1 ELSE 0

(* The closing quote of the span whose group starts at g, 0 if the span is *)
(* empty or never closed.                                                   *)
QuoteGroupStop(d, g) ==
    LET stops == {j \in g..Len(d) : d[j] = "\""}
    IN  IF stops = {} \/ Min(stops) = g THEN 0 ELSE Min(stops)

(* re.findall of the quote pattern from index i on. *)
RECURSIVE quote_matches(_, _)
quote_matches(d, i) ==
    LET starts == {k \in i..Len(d) : QuoteGroupStart(d, k) # 0 /\ QuoteGroupStop(d, QuoteGroupStart(d, k)) # 0}
    IN  IF starts = {} THEN <<>>
        ELSE LET g == QuoteGroupStart(d, Min(starts))
                 e == QuoteGroupStop(d, g)
             IN  <<SubSeq(d, g, e - 1)>> \o quote_matches(d, e + 1)

long_enough_from_ten(match) == Len(match) >= 10

(* if len(match) > 10 *)
long_enough(match) == Len(match) > 10

RECURSIVE keep_prompts(_)
keep_prompts(ms) ==
    IF ms = <<>> THEN <<>>
    ELSE (IF long_enough(Head(ms)) THEN <<strip(Head(ms))>> ELSE <<>>) \o keep_prompts(Tail(ms))

_extract_inquiry_prompts(d) == keep_prompts(quote_matches(d, 1))

(* re.split(r'# \$(\d+)', content): texts and captured digits alternate. *)
re_split_groups(d) ==
    LET ms == subtopic_matches(d)
        texts == re_split(d)
    IN  [j \in 1..(2 * Len(ms) + 1) |->
            IF j % 2 = 1 THEN texts[(j + 1) \div 2] ELSE ms[j \div 2].digits]

(* if i + 1 < len(parts), for the 0-based index i of a digits entry; j is  *)
(* the same entry's 1-based index.                                          *)
has_body_part(parts, j) == j + 1 <= Len(parts)

order_index_renumbered(parts, j) == j \div 2

(* order_index = int(parts[i]) *)
order_index_of(parts, j) == int(parts[j])

(* The loop  for i in range(1, len(parts), 2)  from the digits entry j on. *)
RECURSIVE subtopics_loop(_, _)
subtopics_loop(parts, j) ==
    IF j > Len(parts) THEN <<>>
    ELSE IF has_body_part(parts, j)
         THEN LET order_index == order_index_of(parts, j)
                  subtopic_content == strip(parts[j + 1])
              IN  <<[order_index |-> order_index,
                     title |-> _extract_subtopic_title(subtopic_content, order_index),
                     content |-> subtopic_content,
                     examples |-> _extract_code_blocks(subtopic_content),
                     inquiry_prompts |-> _extract_inquiry_prompts(subtopic_content),
                     estimated_duration_minutes |-> _estimate_duration(subtopic_content)]>>
                  \o subtopics_loop(parts, j + 2)
         ELSE subtopics_loop(parts, j + 2)

_parse_subtopics(d) ==
    LET parts == re_split_groups(d)
    IN  IF Len(parts) > 1 THEN subtopics_loop(parts, 2) ELSE <<>>

lecture_title_no_placeholder(d) ==
    LET title_match == re_search_header(d, LectureTitleLit)
    IN  IF title_match # <<>> THEN strip(title_match[1]) ELSE <<>>

(* The title parse_content gives the lecture. *)
lecture_title(d) ==
    LET title_match == re_search_header(d, LectureTitleLit)
    IN  IF title_match # <<>> THEN strip(title_match[1]) ELSE UntitledLecture

parse_content(d) ==
    LET desc_match == re_search_header(d, DescriptionLit)
        subtopics == _parse_subtopics(d)
    IN  [title |-> lecture_title(d),
         description |-> IF desc_match # <<>> THEN strip(desc_match[1]) ELSE <<>>,
         subtopics |-> subtopics,
         total_subtopics |-> Len(subtopics)]

----------------------------------------------------------------------------
(* ContentValidator(): three new empty lists, bound to the attributes of   *)
(* the new instance; no caller has called it yet.                           *)

Threads == {1, 2}

(* The session state of a new browser session; None is <<>>. *)
NewSession ==
    session_state = [content_input |-> <<>>, validation_result |-> <<>>,
                     parsed_content |-> <<>>, show_template |-> FALSE]

(* No create_lecture_from_parsed_content call has been made. *)
NotImporting ==
    /\ importer = [pc |-> "idle", parsed_content |-> <<>>, custom_prompt |-> <<>>,
                   lecture_id |-> 0, topic_id |-> 0, i |-> 0, ret |-> <<>>]
    /\ posted = <<>>

__init__ ==
    /\ heap = <<<<>>, <<>>, <<>>>>
    /\ instance = [errors |-> 1, warnings |-> 2, suggestions |-> 3]
    /\ calls = [t \in Threads |-> [pc |-> "idle", content |-> <<>>]]
    /\ returned = <<>>
    /\ started = 0

----------------------------------------------------------------------------
(* State machine: a caller composing a document, and one ContentValidator  *)
(* instance it calls validate_content on, pass by pass.                     *)

Self == [errors |-> errors, warnings |-> warnings, suggestions |-> suggestions]

SetSelf(s) ==
    /\ errors' = s.errors
    /\ warnings' = s.warnings
    /\ suggestions' = s.suggestions

Idle == pc \in {"idle", "returned"}

Init ==
    /\ content_input = <<>>
    /\ typed = 0
    /\ content = <<>>
    /\ pc = "idle"
    /\ errors = <<>>
    /\ warnings = <<>>
    /\ suggestions = <<>>
    /\ result = <<>>
    /\ parsed = <<>>
    /\ body = <<>>
    /\ duration = <<>>
    /\ examples = <<>>
    /\ inquiry_prompts = <<>>
    /\ __init__
    /\ NotImporting
    /\ NewSession

(* The caller appends a fragment to the text it will pass next. *)
EditContent ==
    /\ Idle
    /\ typed < MaxEdits
    /\ \E f \in Fragments : content_input' = content_input \o f
    /\ typed' = typed + 1
    /\ UNCHANGED <<content, pc, errors, warnings, suggestions, result>>
    /\ UNCHANGED <<parser_vars, other_vars>>

(* validate_content(content) is entered: the three lists are reset. *)
validate_content ==
    /\ Idle
    /\ content' = content_input
    /\ SetSelf([errors |-> <<>>, warnings |-> <<>>, suggestions |-> <<>>])
    /\ result' = <<>>
    /\ pc' = "check_empty"
    /\ UNCHANGED <<content_input, typed>>
    /\ UNCHANGED <<parser_vars, other_vars>>

(* if not content.strip(): one error and return. *)
check_empty ==
    /\ pc = "check_empty"
    /\ IF is_blank(content)
       THEN LET s == [errors |-> Append(errors, E_EMPTY), warnings |-> warnings,
                      suggestions |-> suggestions]
            IN  /\ SetSelf(s)
                /\ result' = <<_build_result(s)>>
                /\ pc' = "returned"
       ELSE /\ pc' = "headers"
            /\ UNCHANGED <<errors, warnings, suggestions, result>>
    /\ UNCHANGED <<content_input, typed, content>>
    /\ UNCHANGED <<parser_vars, other_vars>>

validate_headers_fail_fast ==
    /\ pc = "headers"
    /\ SetSelf(_validate_headers(Self, content))
    /\ pc' = IF _validate_headers(Self, content).errors # <<>> THEN "build" ELSE "subtopics"
    /\ UNCHANGED <<content_input, typed, content, result>>
    /\ UNCHANGED <<parser_vars, other_vars>>

validate_headers ==
    /\ pc = "headers"
    /\ SetSelf(_validate_headers(Self, content))
    /\ pc' = "subtopics"
    /\ UNCHANGED <<content_input, typed, content, result>>
    /\ UNCHANGED <<parser_vars, other_vars>>

validate_subtopics ==
    /\ pc = "subtopics"
    /\ SetSelf(_validate_subtopics(Self, content))
    /\ pc' = "completeness"
    /\ UNCHANGED <<content_input, typed, content, result>>
    /\ UNCHANGED <<parser_vars, other_vars>>

validate_content_completeness ==
    /\ pc = "completeness"
    /\ SetSelf(_validate_content_completeness(Self, content))
    /\ pc' = "build"
    /\ UNCHANGED <<content_input, typed, content, result>>
    /\ UNCHANGED <<parser_vars, other_vars>>

build_result ==
    /\ pc = "build"
    /\ result' = <<_build_result(Self)>>
    /\ pc' = "returned"
    /\ UNCHANGED <<content_input, typed, content, errors, warnings, suggestions>>
    /\ UNCHANGED <<parser_vars, other_vars>>

Next ==
    \/ EditContent
    \/ validate_content
    \/ check_empty
    \/ validate_headers
    \/ validate_subtopics
    \/ validate_content_completeness
    \/ build_result

Spec == Init /\ [][Next]_vars

----------------------------------------------------------------------------
(* The parser and the validator on one pasted document.                     *)

(* Number of text fragments pasted into one document. *)
MaxPaste == 3

TextLine == <<"x"," ","y","\n">>
Heading2 == <<"#","#"," ","H","\n">>
Heading3 == <<"#","#","#"," ","H","\n">>
Heading2Annotated == <<"#","#"," ","[","1","0"," ","m","i","n","]","\n">>
Long99 == [i \in 1..99 |-> "y"]

ParseFragments == {TitleLine, EmptyTitleLine, Marker1, Marker2, Marker3, TextLine,
                   Heading2, Heading3, Heading2Annotated, Long99}

(* The text area holds more text: the stored report and lecture are        *)
(* dropped, and the next validation runs on a new ContentValidator.         *)
PasteContent ==
    /\ Idle
    /\ typed < MaxPaste
    /\ \E f \in ParseFragments : content_input' = content_input \o f
    /\ typed' = typed + 1
    /\ content' = <<>>
    /\ pc' = "idle"
    /\ SetSelf([errors |-> <<>>, warnings |-> <<>>, suggestions |-> <<>>])
    /\ result' = <<>>
    /\ parsed' = <<>>
    /\ UNCHANGED <<body, duration, other_vars>>

(* parse_content(content_input) is called and returns. *)
ParseContent ==
    /\ Idle
    /\ parsed' = <<parse_content(content_input)>>
    /\ UNCHANGED <<validator_vars, body, duration, other_vars>>

NextParse ==
    \/ PasteContent
    \/ ParseContent
    \/ validate_content
    \/ check_empty
    \/ validate_headers
    \/ validate_subtopics
    \/ validate_content_completeness
    \/ build_result

SpecParse == Init /\ [][NextParse]_vars

----------------------------------------------------------------------------
(* _estimate_duration on section bodies of many words.                      *)

(* Largest number of words in a section body. *)
MaxWords == 1300

(* n words separated by single spaces. *)
WordsBody(n) == [i \in 1..(IF n = 0 THEN 0 ELSE 2 * n - 1) |-> IF i % 2 = 1 THEN "w" ELSE " "]

Tag0 == <<"[","0"," ","m","i","n","]">>
Tag12 == <<"[","1","2"," ","m","i","n","]">>
Tag120 == <<"[","1","2","0"," ","m","i","n","]">>

(* A trimmed section body: an optional annotation, then n words. *)
SectionBody(tag, n) ==
    IF tag = <<>> \/ n = 0 THEN tag \o WordsBody(n) ELSE tag \o <<" ">> \o WordsBody(n)

Tags == {<<>>, Tag0, Tag12, Tag120}

(* What may stand at the end of a body: nothing, or one more annotation. *)
Tails == {<<>>, Tag120}

(* A section body that ends with tail. *)
TailedBody(tag, n, tail) ==
    LET b == SectionBody(tag, n)
    IN  IF b = <<>> \/ tail = <<>> THEN b \o tail ELSE b \o <<" ">> \o tail

InitDuration ==
    /\ content_input = <<>>
    /\ typed = 0
    /\ content = <<>>
    /\ pc = "idle"
    /\ errors = <<>>
    /\ warnings = <<>>
    /\ suggestions = <<>>
    /\ result = <<>>
    /\ parsed = <<>>
    /\ \E n \in 0..MaxWords : \E tag \in Tags : \E tail \in Tails :
           body = TailedBody(tag, n, tail)
    /\ duration = <<>>
    /\ examples = <<>>
    /\ inquiry_prompts = <<>>
    /\ __init__
    /\ NotImporting
    /\ NewSession

EstimateDuration ==
    /\ duration = <<>>
    /\ duration' = <<_estimate_duration(body)>>
    /\ UNCHANGED <<validator_vars, parsed, body, other_vars>>

NextDuration == EstimateDuration

SpecDuration == InitDuration /\ [][NextDuration]_vars

----------------------------------------------------------------------------
(* _extract_code_blocks and _extract_inquiry_prompts on section bodies made *)
(* of fenced blocks, blockquoted prompts and prose.                         *)

(* Number of blocks and lines in a section body. *)
MaxBlocks == 3

PyBlock == Fence \o PythonTag \o <<"\n"," ","p"," ","\n">> \o Fence \o <<"\n">>
PlainBlock == Fence \o <<"\n","q","\n">> \o Fence \o <<"\n">>
JsBlock == Fence \o <<"j","s","\n","r","\n">> \o Fence \o <<"\n">>
Quote8 == <<">"," ","\"","1","2","3","4","5","6","7","8","\"","\n">>
Quote10 == <<">"," ","\"","0","1","2","3","4","5","6","7","8","9","\"","\n">>
Quote11 == <<">"," ","\"","0","1","2","3","4","5","6","7","8","9","a","\"","\n">>
ProseLine == <<"t","\n">>

ExtractFragments == {PyBlock, PlainBlock, JsBlock, Quote8, Quote10, Quote11, ProseLine}

(* Texts of at most n fragments. *)
RECURSIVE Bodies(_)
Bodies(n) ==
    IF n = 0 THEN {<<>>}
    ELSE Bodies(n - 1) \cup {b \o f : b \in Bodies(n - 1), f \in ExtractFragments}

(* The parser hands a trimmed section body to the extractors. *)
InitExtract ==
    /\ content_input = <<>>
    /\ typed = 0
    /\ content = <<>>
    /\ pc = "idle"
    /\ errors = <<>>
    /\ warnings = <<>>
    /\ suggestions = <<>>
    /\ result = <<>>
    /\ parsed = <<>>
    /\ \E b \in Bodies(MaxBlocks) : body = strip(b)
    /\ duration = <<>>
    /\ examples = <<>>
    /\ inquiry_prompts = <<>>
    /\ __init__
    /\ NotImporting
    /\ NewSession

ExtractCodeBlocks ==
    /\ examples = <<>>
    /\ examples' = <<_extract_code_blocks(body)>>
    /\ UNCHANGED <<validator_vars, parser_vars, inquiry_prompts, instance_vars, import_vars, session_state>>

ExtractInquiryPrompts ==
    /\ inquiry_prompts = <<>>
    /\ inquiry_prompts' = <<_extract_inquiry_prompts(body)>>
    /\ UNCHANGED <<validator_vars, parser_vars, examples, instance_vars, import_vars, session_state>>

NextExtract ==
    \/ ExtractCodeBlocks
    \/ ExtractInquiryPrompts

SpecExtract == InitExtract /\ [][NextExtract]_vars

----------------------------------------------------------------------------
(* One ContentValidator instance called by several callers.  The lists are *)
(* objects: an attribute and a report hold references to them, so that a    *)
(* list shared by the instance and a report, or by two reports, is seen.    *)
(* A step is one statement of validate_content; a rule pass is one step.    *)

(* Number of validate_content calls made on the instance one after the    *)
(* other, and number of calls made on it by callers that do not wait.       *)
MaxCalls == 3
MaxRacing == 2

DocBlank == BlankLine
DocWarned == TitleLine \o Marker1
DocBroken == Marker2

InstanceDocs == {DocBlank, DocWarned, DocBroken}

(* The lists the attributes refer to. *)
Deref(refs) ==
    [errors      |-> heap[refs.errors],
     warnings    |-> heap[refs.warnings],
     suggestions |-> heap[refs.suggestions]]

(* The lists the attributes refer to become those of s. *)
Store(refs, s) ==
    heap' = [heap EXCEPT ![refs.errors] = s.errors,
                         ![refs.warnings] = s.warnings,
                         ![refs.suggestions] = s.suggestions]

Goto(t, label) == calls' = [calls EXCEPT ![t].pc = label]

AllIdle == \A u \in Threads : calls[u].pc = "idle"

(* validate_content(content) is entered by caller t. *)
Call(t, d) ==
    /\ calls[t].pc = "idle"
    /\ started' = started + 1
    /\ calls' = [calls EXCEPT ![t] = [pc |-> "reset_errors", content |-> d]]
    /\ UNCHANGED <<heap, instance, returned>>
    /\ UNCHANGED <<validator_vars, parser_vars, extract_vars, import_vars, session_state>>

(* The same, by a caller that waits until no other call is running. *)
CallAlone(t, d) ==
    /\ AllIdle
    /\ started < MaxCalls
    /\ Call(t, d)

(* The same, by a caller that does not wait. *)
CallAnytime(t, d) ==
    /\ started < MaxRacing
    /\ Call(t, d)

ResetErrors_clears(t) ==
    /\ calls[t].pc = "reset_errors"
    /\ heap' = [heap EXCEPT ![instance.errors] = <<>>]
    /\ Goto(t, "reset_warnings")
    /\ UNCHANGED <<instance, returned, started>>
    /\ UNCHANGED <<validator_vars, parser_vars, extract_vars, import_vars, session_state>>

(* self.errors = [] *)
ResetErrors(t) ==
    /\ calls[t].pc = "reset_errors"
    /\ heap' = Append(heap, <<>>)
    /\ instance' = [instance EXCEPT !.errors = Len(heap) + 1]
    /\ Goto(t, "reset_warnings")
    /\ UNCHANGED <<returned, started>>
    /\ UNCHANGED <<validator_vars, parser_vars, extract_vars, import_vars, session_state>>

ResetWarnings_keeps_list(t) ==
    /\ calls[t].pc = "reset_warnings"
    /\ Goto(t, "reset_suggestions")
    /\ UNCHANGED <<heap, instance, returned, started>>
    /\ UNCHANGED <<validator_vars, parser_vars, extract_vars, import_vars, session_state>>

(* self.warnings = [] *)
ResetWarnings(t) ==
    /\ calls[t].pc = "reset_warnings"
    /\ heap' = Append(heap, <<>>)
    /\ instance' = [instance EXCEPT !.warnings = Len(heap) + 1]
    /\ Goto(t, "reset_suggestions")
    /\ UNCHANGED <<returned, started>>
    /\ UNCHANGED <<validator_vars, parser_vars, extract_vars, import_vars, session_state>>

(* self.suggestions = [] *)
ResetSuggestions(t) ==
    /\ calls[t].pc = "reset_suggestions"
    /\ heap' = Append(heap, <<>>)
    /\ instance' = [instance EXCEPT !.suggestions = Len(heap) + 1]
    /\ Goto(t, "check_empty")
    /\ UNCHANGED <<returned, started>>
    /\ UNCHANGED <<validator_vars, parser_vars, extract_vars, import_vars, session_state>>

(* if not content.strip(): self.errors.append("Content cannot be empty") *)
CheckEmpty(t) ==
    /\ calls[t].pc = "check_empty"
    /\ IF is_blank(calls[t].content)
       THEN /\ heap' = [heap EXCEPT ![instance.errors] = Append(@, E_EMPTY)]
            /\ Goto(t, "build")
       ELSE /\ Goto(t, "headers")
            /\ UNCHANGED heap
    /\ UNCHANGED <<instance, returned, started>>
    /\ UNCHANGED <<validator_vars, parser_vars, extract_vars, import_vars, session_state>>

(* self._validate_headers(content) *)
ValidateHeaders(t) ==
    /\ calls[t].pc = "headers"
    /\ Store(instance, _validate_headers(Deref(instance), calls[t].content))
    /\ Goto(t, "subtopics")
    /\ UNCHANGED <<instance, returned, started>>
    /\ UNCHANGED <<validator_vars, parser_vars, extract_vars, import_vars, session_state>>

(* self._validate_subtopics(content) *)
ValidateSubtopics(t) ==
    /\ calls[t].pc = "subtopics"
    /\ Store(instance, _validate_subtopics(Deref(instance), calls[t].content))
    /\ Goto(t, "completeness")
    /\ UNCHANGED <<instance, returned, started>>
    /\ UNCHANGED <<validator_vars, parser_vars, extract_vars, import_vars, session_state>>

(* self._validate_content_completeness(content) *)
ValidateCompleteness(t) ==
    /\ calls[t].pc = "completeness"
    /\ Store(instance, _validate_content_completeness(Deref(instance), calls[t].content))
    /\ Goto(t, "build")
    /\ UNCHANGED <<instance, returned, started>>
    /\ UNCHANGED <<validator_vars, parser_vars, extract_vars, import_vars, session_state>>

(* return self._build_result(): the report refers to the instance's lists. *)
(* The caller keeps it, with a copy of what the lists held at that moment.  *)
BuildResult(t) ==
    /\ calls[t].pc = "build"
    /\ LET r == _build_result(Deref(instance))
           report == [is_valid      |-> r.is_valid,
                      errors        |-> instance.errors,
                      warnings      |-> instance.warnings,
                      suggestions   |-> instance.suggestions,
                      error_count   |-> r.error_count,
                      warning_count |-> r.warning_count]
       IN  returned' = Append(returned, [by |-> t, content |-> calls[t].content,
                                         report |-> report, was |-> Deref(instance)])
    /\ Goto(t, "idle")
    /\ UNCHANGED <<heap, instance, started>>
    /\ UNCHANGED <<validator_vars, parser_vars, extract_vars, import_vars, session_state>>

(* One statement of a running call. *)
Step(t) ==
    \/ ResetErrors(t)
    \/ ResetWarnings(t)
    \/ ResetSuggestions(t)
    \/ CheckEmpty(t)
    \/ ValidateHeaders(t)
    \/ ValidateSubtopics(t)
    \/ ValidateCompleteness(t)
    \/ BuildResult(t)

(* Calls one after the other. *)
NextInstance ==
    \/ \E t \in Threads : \E d \in InstanceDocs : CallAlone(t, d)
    \/ \E t \in Threads : Step(t)

SpecInstance == Init /\ [][NextInstance]_vars

(* Calls that interleave. *)
NextThreads ==
    \/ \E t \in Threads : \E d \in InstanceDocs : CallAnytime(t, d)
    \/ \E t \in Threads : Step(t)

SpecThreads == Init /\ [][NextThreads]_vars

----------------------------------------------------------------------------
(* create_lecture_from_parsed_content: the requests it posts, one step per *)
(* request, each with every answer the backend or the network can give.     *)

(* What a requests.post call can do: answer 200 with an id in the body,    *)
(* answer 200 with a body that has no id, answer another status, or raise.  *)
Outcomes == {"ok", "no_id", "error_status", "raises"}

(* The ids the backend hands out. *)
Ids == {7, 8}

(* sum(st.get("estimated_duration_minutes", 30) for st in subtopics) *)
RECURSIVE sum_durations(_)
sum_durations(subtopics) ==
    IF subtopics = <<>> THEN 0
    ELSE Head(subtopics).estimated_duration_minutes + sum_durations(Tail(subtopics))

lecture_payload(parsed_content) ==
    [title       |-> parsed_content.title,
     description |-> parsed_content.description,
     order_index |-> 1]

topic_payload(parsed_content, lecture_id) ==
    [lecture_id  |-> lecture_id,
     title       |-> parsed_content.title,
     description |-> parsed_content.description,
     order_index |-> 1,
     learning_objectives |->
         <<<<"C","o","m","p","l","e","t","e"," ">> \o parsed_content.title
               \o <<" ","s","u","b","t","o","p","i","c","s">>>>,
     estimated_duration_minutes |-> sum_durations(parsed_content.subtopics)]

(* None is <<>>, a prompt is <<prompt>>. *)
subtopic_payload(subtopic, topic_id, custom_prompt) ==
    [topic_id    |-> topic_id,
     title       |-> subtopic.title,
     content     |-> subtopic.content,
     order_index |-> subtopic.order_index,
     examples    |-> subtopic.examples,
     introduction_prompt |-> IF custom_prompt # <<>> THEN <<custom_prompt>> ELSE <<>>,
     explanation_prompt  |-> <<>>,
     assessment_prompt   |-> <<>>]

Post(url, json, outcome) ==
    posted' = Append(posted, [url |-> url, json |-> json, outcome |-> outcome])

(* return False, from the status check or from the except clause. *)
ReturnFalse == importer' = [importer EXCEPT !.pc = "done", !.ret = <<FALSE>>]

(* requests.post(".../teacher/lectures", json=lecture_payload) and the     *)
(* reading of lecture_data["id"].                                           *)
PostLecture ==
    /\ importer.pc = "lecture"
    /\ \E o \in Outcomes :
           /\ Post("/teacher/lectures", lecture_payload(importer.parsed_content[1]), o)
           /\ IF o = "ok"
              THEN \E id \in Ids :
                       importer' = [importer EXCEPT !.pc = "topic", !.lecture_id = id]
              ELSE ReturnFalse
    /\ UNCHANGED <<validator_vars, parser_vars, extract_vars, instance_vars, session_state>>

(* requests.post(".../teacher/topics", json=topic_payload) and the reading *)
(* of topic_data["id"].                                                     *)
PostTopic ==
    /\ importer.pc = "topic"
    /\ \E o \in Outcomes :
           /\ Post("/teacher/topics",
                   topic_payload(importer.parsed_content[1], importer.lecture_id), o)
           /\ IF o = "ok"
              THEN \E id \in Ids :
                       importer' = [importer EXCEPT !.pc = "subtopics", !.topic_id = id, !.i = 1]
              ELSE ReturnFalse
    /\ UNCHANGED <<validator_vars, parser_vars, extract_vars, instance_vars, session_state>>

PostSubtopic_continues ==
    /\ importer.pc = "subtopics"
    /\ importer.i <= Len(importer.parsed_content[1].subtopics)
    /\ \E o \in Outcomes \ {"no_id"} :
           /\ Post("/teacher/subtopics",
                   subtopic_payload(importer.parsed_content[1].subtopics[importer.i],
                                    importer.topic_id, importer.custom_prompt), o)
           /\ IF o # "raises"
              THEN importer' = [importer EXCEPT !.i = @ + 1]
              ELSE ReturnFalse
    /\ UNCHANGED <<validator_vars, parser_vars, extract_vars, instance_vars, session_state>>

(* One round of  for subtopic in parsed_content["subtopics"]: the body of  *)
(* the answer is not read.                                                  *)
PostSubtopic ==
    /\ importer.pc = "subtopics"
    /\ importer.i <= Len(importer.parsed_content[1].subtopics)
    /\ \E o \in Outcomes \ {"no_id"} :
           /\ Post("/teacher/subtopics",
                   subtopic_payload(importer.parsed_content[1].subtopics[importer.i],
                                    importer.topic_id, importer.custom_prompt), o)
           /\ IF o = "ok"
              THEN importer' = [importer EXCEPT !.i = @ + 1]
              ELSE ReturnFalse
    /\ UNCHANGED <<validator_vars, parser_vars, extract_vars, instance_vars, session_state>>

(* return True, after the loop. *)
ReturnTrue ==
    /\ importer.pc = "subtopics"
    /\ importer.i > Len(importer.parsed_content[1].subtopics)
    /\ importer' = [importer EXCEPT !.pc = "done", !.ret = <<TRUE>>]
    /\ UNCHANGED posted
    /\ UNCHANGED <<validator_vars, parser_vars, extract_vars, instance_vars, session_state>>

(* get_template_example(), shortened: title header, a section with an     *)
(* annotated heading, a prompt and a code block, and a second section.      *)
Template ==
    TitleLine \o Marker1 \o Heading2Annotated \o Quote11 \o PyBlock \o Marker2 \o TextLine \o PlainBlock

ImportDocs == {TitleLine, Template, Marker3 \o TextLine \o Marker1 \o JsBlock, Marker2 \o Quote11}

CustomPrompts == {<<>>, <<"f","o","c","u","s">>}

(* The function is entered with a parsed lecture and a custom prompt. *)
InitImport ==
    /\ content_input = <<>>
    /\ typed = 0
    /\ content = <<>>
    /\ pc = "idle"
    /\ errors = <<>>
    /\ warnings = <<>>
    /\ suggestions = <<>>
    /\ result = <<>>
    /\ parsed = <<>>
    /\ body = <<>>
    /\ duration = <<>>
    /\ examples = <<>>
    /\ inquiry_prompts = <<>>
    /\ __init__
    /\ posted = <<>>
    /\ \E d \in ImportDocs : \E custom_prompt \in CustomPrompts :
           importer = [pc |-> "lecture", parsed_content |-> <<parse_content(d)>>,
                       custom_prompt |-> custom_prompt,
                       lecture_id |-> 0, topic_id |-> 0, i |-> 0, ret |-> <<>>]
    /\ NewSession

NextImport ==
    \/ PostLecture
    \/ PostTopic
    \/ PostSubtopic
    \/ ReturnTrue

SpecImport == InitImport /\ [][NextImport]_vars

----------------------------------------------------------------------------
(* The import page: one action per user action, each being one run of      *)
(* display_content_import_page.  The text area has no key and takes its     *)
(* value from st.session_state.content_input, so it returns that text       *)
(* unless the user has typed another one.                                   *)

(* ContentValidator().validate_content(d): a call on a new instance. *)
validate(d) ==
    LET new == [errors |-> <<>>, warnings |-> <<>>, suggestions |-> <<>>]
    IN  IF is_blank(d)
        THEN _build_result([new EXCEPT !.errors = <<E_EMPTY>>])
        ELSE _build_result(_validate_content_completeness(
                               _validate_subtopics(_validate_headers(new, d), d), d))

(* The texts the user types or pastes. *)
SessionDocs == {<<>>, BlankLine, DocWarned, DocBroken, Template}

(* No import is running, so the page reacts to the user. *)
PageIdle == importer.pc = "idle"

frame_session == UNCHANGED <<validator_vars, parser_vars, extract_vars, instance_vars>>

(* The user changes the text: the results of the old text are dropped. *)
EditText ==
    /\ PageIdle
    /\ \E d \in SessionDocs :
           /\ d # session_state.content_input
           /\ session_state' = [session_state EXCEPT !.content_input = d,
                                                      !.validation_result = <<>>,
                                                      !.parsed_content = <<>>]
    /\ UNCHANGED import_vars
    /\ frame_session

(* Button "Show Template". *)
ShowTemplate ==
    /\ PageIdle
    /\ session_state' = [session_state EXCEPT !.show_template = ~@]
    /\ UNCHANGED import_vars
    /\ frame_session

(* Button "Copy Template", inside the template guide, and the rerun. *)
CopyTemplate ==
    /\ PageIdle
    /\ session_state.show_template
    /\ session_state' = [session_state EXCEPT !.content_input = Template]
    /\ UNCHANGED import_vars
    /\ frame_session

(* Button "Validate Content". *)
ValidateContent ==
    /\ PageIdle
    /\ LET content_input_ == session_state.content_input
           validation_result == validate(content_input_)
       IN  IF ~is_blank(content_input_)
           THEN session_state' =
                    [session_state EXCEPT
                        !.validation_result = <<validation_result>>,
                        !.parsed_content = IF validation_result.is_valid
                                           THEN <<parse_content(content_input_)>> ELSE @]
           ELSE UNCHANGED session_state
    /\ UNCHANGED import_vars
    /\ frame_session

(* Button "Preview Content". *)
PreviewContent ==
    /\ PageIdle
    /\ LET content_input_ == session_state.content_input
       IN  IF ~is_blank(content_input_)
           THEN session_state' =
                    [session_state EXCEPT
                        !.parsed_content = <<parse_content(content_input_)>>,
                        !.validation_result = <<validate(content_input_)>>]
           ELSE UNCHANGED session_state
    /\ UNCHANGED import_vars
    /\ frame_session

(* The import section is shown. *)
import_shown ==
    /\ session_state.parsed_content # <<>>
    /\ session_state.validation_result # <<>>
    /\ session_state.validation_result[1].is_valid

(* Button "Import Lecture": create_lecture_from_parsed_content is entered. *)
ImportLecture ==
    /\ PageIdle
    /\ import_shown
    /\ \E custom_prompt \in CustomPrompts :
           importer' = [pc |-> "lecture", parsed_content |-> session_state.parsed_content,
                        custom_prompt |-> custom_prompt,
                        lecture_id |-> 0, topic_id |-> 0, i |-> 0, ret |-> <<>>]
    /\ posted' = <<>>
    /\ UNCHANGED session_state
    /\ frame_session

(* create_lecture_from_parsed_content has returned: on True the form is    *)
(* cleared.                                                                 *)
ImportReturned ==
    /\ importer.pc = "done"
    /\ importer' = [importer EXCEPT !.pc = "idle"]
    /\ session_state' = IF importer.ret = <<TRUE>>
                        THEN [session_state EXCEPT !.content_input = <<>>,
                                                   !.validation_result = <<>>,
                                                   !.parsed_content = <<>>]
                        ELSE session_state
    /\ UNCHANGED posted
    /\ frame_session

NextSession ==
    \/ EditText
    \/ ShowTemplate
    \/ CopyTemplate
    \/ ValidateContent
    \/ PreviewContent
    \/ ImportLecture
    \/ PostLecture
    \/ PostTopic
    \/ PostSubtopic
    \/ ReturnTrue
    \/ ImportReturned

SpecSession == Init /\ [][NextSession]_vars

----------------------------------------------------------------------------
(* Vocabulary of the properties, stated on the document and on the report  *)
(* a finished call returned.                                                *)

Returned == pc = "returned" /\ result # <<>>

Report == result[1]

Blank(d) == \A i \in 1..Len(d) : d[i] \in {" ", "\n", "\t"}

IsSeqError(m) == m.text = "Subtopics must be numbered sequentially starting from $1. Found: "

IsSeqSuggestion(m) == m.text = "Use sequential numbering: "

IsDupError(m) == m.text = "Duplicate subtopic numbers found: "

IsFirstError(m) == m.text = "First subtopic must be '# $1'"

IsNoMarkersError(m) == m.text = "No subtopics found. Must have at least '# $1'"

IsMarkerError(m) == IsSeqError(m) \/ IsDupError(m) \/ IsFirstError(m) \/ IsNoMarkersError(m)

HasText(ms, t) == \E k \in 1..Len(ms) : ms[k].text = t

Indices(ms, P(_)) == {k \in 1..Len(ms) : P(ms[k])}

OneToN(n) == [k \in 1..n |-> k]

(* The marker numbers of the document, in document order. *)
Markers == numbers_of(content)

----------------------------------------------------------------------------
(* C1: in every returned report is_valid is true exactly when the errors   *)
(* list is empty, whatever the warnings and suggestions hold.               *)
C1_ValidIffNoErrors ==
    Returned => (Report.is_valid <=> Report.errors = <<>>)

C1_Witness ==
    /\ Returned
    /\ Report.is_valid
    /\ Report.warnings # <<>>
    /\ Report.suggestions # <<>>

(* C2: a document that is empty or only whitespace gets exactly the one     *)
(* error "Content cannot be empty", no warning, no suggestion, and is       *)
(* invalid.                                                                 *)
C2_BlankReport ==
    (Returned /\ Blank(content)) =>
        /\ Report.errors = <<Msg("Content cannot be empty", <<>>)>>
        /\ Report.warnings = <<>>
        /\ Report.suggestions = <<>>
        /\ Report.is_valid = FALSE

C2_Witness ==
    /\ Returned
    /\ Blank(content)
    /\ Len(content) > 0

(* A title header carrying a value: the header text, ':' and a character  *)
(* that is not whitespace, all on one line.                                 *)
HasTitleHeader(d) ==
    \E i \in 1..Len(d) :
        /\ LiteralAt(d, i, LectureTitleLit)
        /\ LET inline(from) == {k \in from..Len(d) : d[k] \notin {" ", "\t"}}
               cs == inline(i + Len(LectureTitleLit))
           IN  /\ cs # {}
               /\ d[Min(cs)] = ":"
               /\ LET vs == inline(Min(cs) + 1)
                  IN  vs # {} /\ d[Min(vs)] # "\n"

(* C3: a document with a title header and markers numbered 1..N (N >= 1)   *)
(* in increasing order without duplicates is reported valid.                *)
C3_WellFormedIsValid ==
    (Returned /\ HasTitleHeader(content) /\ Len(Markers) >= 1 /\ Markers = OneToN(Len(Markers)))
        => Report.is_valid

C3_Witness ==
    /\ Returned
    /\ HasTitleHeader(content)
    /\ Markers = <<1, 2>>
    /\ Report.is_valid

(* C4: for a document that is not blank, every error condition that holds  *)
(* (title header not found, title value empty, no markers, numbers not      *)
(* 1..N in order, duplicate numbers, first number not 1) has its error in   *)
(* the one report, whichever other conditions hold.                         *)
C4_AllFindingsReported ==
    (Returned /\ ~Blank(content)) =>
        LET title == re_search_header(content, LectureTitleLit)
        IN  /\ title = <<>> => HasText(Report.errors, "Missing required header: '### Lecture Title :'")
            /\ (title # <<>> /\ Blank(title[1])) => HasText(Report.errors, "Lecture title cannot be empty")
            /\ Markers = <<>> => Indices(Report.errors, IsNoMarkersError) # {}
            /\ Markers # OneToN(Len(Markers)) => Indices(Report.errors, IsSeqError) # {}
            /\ (\E a, b \in 1..Len(Markers) : a # b /\ Markers[a] = Markers[b])
                   => Indices(Report.errors, IsDupError) # {}
            /\ (Markers # <<>> /\ Markers[1] # 1) => Indices(Report.errors, IsFirstError) # {}

(* A header with an empty value, and markers that are out of sequence,     *)
(* duplicated and not starting at 1: four errors in one report.             *)
C4_Witness ==
    /\ Returned
    /\ HasText(Report.errors, "Lecture title cannot be empty")
    /\ Indices(Report.errors, IsSeqError) # {}
    /\ Indices(Report.errors, IsDupError) # {}
    /\ Indices(Report.errors, IsFirstError) # {}

(* C5: when the marker numbers in document order differ from 1..N the      *)
(* report has exactly one sequential-numbering error, listing the numbers   *)
(* in document order, and exactly one suggestion listing 1..N; for markers  *)
(* 1,3,2 it is the only marker error.                                       *)
C5_SequentialError ==
    (Returned /\ ~Blank(content) /\ Markers # OneToN(Len(Markers))) =>
        /\ Cardinality(Indices(Report.errors, IsSeqError)) = 1
        /\ \A k \in Indices(Report.errors, IsSeqError) : Report.errors[k].args = Markers
        /\ Cardinality(Indices(Report.suggestions, IsSeqSuggestion)) = 1
        /\ \A k \in Indices(Report.suggestions, IsSeqSuggestion) :
               Report.suggestions[k].args = OneToN(Len(Markers))
        /\ Markers = <<1, 3, 2>> => Cardinality(Indices(Report.errors, IsMarkerError)) = 1

C5_Witness ==
    /\ Returned
    /\ Markers = <<1, 3, 2>>
    /\ \E k \in 1..Len(Report.errors) :
           IsSeqError(Report.errors[k]) /\ Report.errors[k].args = <<1, 3, 2>>

(* C6: when a marker number occurs more than once the report has exactly   *)
(* one duplicate error; it names each number that occurs more than once    *)
(* exactly once and no other number.                                        *)
C6_DuplicateError ==
    (Returned /\ ~Blank(content)
       /\ \E a, b \in 1..Len(Markers) : a # b /\ Markers[a] = Markers[b]) =>
        /\ Cardinality(Indices(Report.errors, IsDupError)) = 1
        /\ \A k \in Indices(Report.errors, IsDupError) :
             LET named == Report.errors[k].args
             IN  /\ {named[j] : j \in 1..Len(named)}
                      = {n \in Range(Markers) : \E a, b \in 1..Len(Markers) :
                                                    a # b /\ Markers[a] = n /\ Markers[b] = n}
                 /\ \A i, j \in 1..Len(named) : named[i] = named[j] => i = j

C6_Witness ==
    /\ Returned
    /\ Markers = <<1, 2, 2>>
    /\ \E k \in 1..Len(Report.errors) :
           IsDupError(Report.errors[k]) /\ Report.errors[k].args = <<2>>

(* C7: when the first marker is not 1 the report has both the first-marker *)
(* error and the sequential-numbering error.                                *)
C7_FirstNotOne ==
    (Returned /\ ~Blank(content) /\ Markers # <<>> /\ Markers[1] # 1) =>
        /\ Indices(Report.errors, IsFirstError) # {}
        /\ Indices(Report.errors, IsSeqError) # {}

C7_Witness ==
    /\ Returned
    /\ Markers = <<2, 3>>
    /\ Indices(Report.errors, IsFirstError) # {}
    /\ Indices(Report.errors, IsSeqError) # {}

MarkerRank(m) == IF IsSeqError(m) THEN 1 ELSE IF IsDupError(m) THEN 2 ELSE 3

(* C8: the marker errors of a report come in the order sequential,         *)
(* duplicate, first-marker; markers 1,1,3 give the sequential and the      *)
(* duplicate error and no first-marker error.                               *)
C8_MarkerErrorOrder ==
    Returned =>
        LET es == Report.errors
            marker == {k \in 1..Len(es) : IsSeqError(es[k]) \/ IsDupError(es[k]) \/ IsFirstError(es[k])}
        IN  /\ \A i, j \in marker : i < j => MarkerRank(es[i]) < MarkerRank(es[j])
            /\ (~Blank(content) /\ Markers = <<1, 1, 3>>) =>
                   /\ Indices(es, IsSeqError) # {}
                   /\ Indices(es, IsDupError) # {}
                   /\ Indices(es, IsFirstError) = {}

C8_Witness ==
    /\ Returned
    /\ Markers = <<1, 1, 3>>
    /\ \E i, j \in 1..Len(Report.errors) :
           i < j /\ IsSeqError(Report.errors[i]) /\ IsDupError(Report.errors[j])

(* The text of the document has the title header text nowhere. *)
NoTitleHeaderText(d) == \A i \in 1..Len(d) : ~LiteralAt(d, i, LectureTitleLit)

(* The first title header of the document is followed by ':' and, up to    *)
(* the end of its line, by nothing but whitespace.                          *)
TitleValueEmptyOnLine(d) ==
    \E i \in 1..Len(d) :
        /\ LiteralAt(d, i, LectureTitleLit)
        /\ \A h \in 1..(i - 1) : ~LiteralAt(d, h, LectureTitleLit)
        /\ LET inline(from) == {k \in from..Len(d) : d[k] \notin {" ", "\t"}}
               cs == inline(i + Len(LectureTitleLit))
           IN  /\ cs # {}
               /\ d[Min(cs)] = ":"
               /\ LET vs == inline(Min(cs) + 1)
                  IN  vs = {} \/ d[Min(vs)] = "\n"

(* C9: for a document that is not blank, a missing title header gives the  *)
(* missing-header error and its suggestion, and a title header whose value *)
(* on its line is empty or whitespace gives the "Lecture title cannot be   *)
(* empty" error and its suggestion, whatever follows on later lines.        *)
C9_TitleHeaderErrors ==
    (Returned /\ ~Blank(content)) =>
        /\ NoTitleHeaderText(content) =>
               /\ HasText(Report.errors, "Missing required header: '### Lecture Title :'")
               /\ HasText(Report.suggestions, "Add '### Lecture Title : Your Title Here' at the beginning")
        /\ TitleValueEmptyOnLine(content) =>
               /\ HasText(Report.errors, "Lecture title cannot be empty")
               /\ HasText(Report.suggestions, "Provide a meaningful title after '### Lecture Title :'")

(* The numbers of the markers that stand at the start of a line. *)
LineStartMarkers(d) ==
    LET at == {i \in 1..Len(d) : (i = 1 \/ d[i - 1] = "\n") /\ MarkerAt(d, i)}
        ordered == Ascending(at)
    IN  [k \in 1..Len(ordered) |-> int(SubSeq(d, ordered[k] + 3, DigitsEnd(d, ordered[k] + 3) - 1))]

(* C10: only '# $<digits>' at the start of a line counts as a marker: the  *)
(* validator reports "No subtopics found" exactly when no line starts with *)
(* a marker, and a sequential-numbering error lists the numbers of the     *)
(* line-start markers only.                                                 *)
C10_MarkersAtLineStart ==
    (Returned /\ ~Blank(content)) =>
        /\ Indices(Report.errors, IsNoMarkersError) # {} <=> LineStartMarkers(content) = <<>>
        /\ \A k \in Indices(Report.errors, IsSeqError) :
               Report.errors[k].args = LineStartMarkers(content)

----------------------------------------------------------------------------
(* Vocabulary of the parser properties: the lecture a finished             *)
(* parse_content call returned for the pasted document.                     *)

HasParsed == parsed # <<>>

Lecture == parsed[1]

OrderIndexes == [k \in 1..Len(Lecture.subtopics) |-> Lecture.subtopics[k].order_index]

(* C11: parse_content returns a lecture for every document, also for one   *)
(* the validator rejects; for the empty document the lecture has the title *)
(* "Untitled Lecture", an empty description and no subtopics.               *)
C11_ParseTotal ==
    /\ HasParsed => Lecture.total_subtopics = Len(Lecture.subtopics)
    /\ (HasParsed /\ content_input = <<>>) =>
           /\ Lecture.title = <<"U","n","t","i","t","l","e","d"," ","L","e","c","t","u","r","e">>
           /\ Lecture.description = <<>>
           /\ Lecture.subtopics = <<>>
           /\ Lecture.total_subtopics = 0

(* The empty document, rejected by the validator and parsed all the same. *)
C11_Witness ==
    /\ HasParsed
    /\ content_input = <<>>
    /\ Returned
    /\ ~Report.is_valid
    /\ Lecture.subtopics = <<>>

(* C12: the title of the returned lecture is never empty; it is the        *)
(* placeholder "Untitled Lecture" when the document has no title header.    *)
C12_TitleNonEmpty ==
    HasParsed =>
        /\ Lecture.title # <<>>
        /\ NoTitleHeaderText(content_input) => Lecture.title = UntitledLecture

(* The document ends with a marker that only whitespace follows. *)
TrailingMarker(d) ==
    LET at == {i \in 1..Len(d) : MarkerAt(d, i)}
    IN  /\ at # {}
        /\ \A k \in DigitsEnd(d, Max(at) + 3)..Len(d) : IsSpace(d[k])

(* C13: a marker at the end of the document, with no body after it, gives  *)
(* no subtopic, so the lecture has one subtopic fewer than the document     *)
(* has markers and none for the trailing marker.                            *)
C13_TrailingMarkerDropped ==
    (HasParsed /\ TrailingMarker(content_input)) =>
        Len(Lecture.subtopics) = Len(numbers_of(content_input)) - 1

(* C14: the order_index values of the returned subtopics, in list order,   *)
(* are the integer values of the markers' digits in document order: not     *)
(* renumbered, reordered or deduplicated.                                   *)
C14_OrderIndexFromMarker ==
    HasParsed =>
        LET ns == numbers_of(content_input)
        IN  \/ OrderIndexes = ns
            \/ TrailingMarker(content_input) /\ OrderIndexes = SubSeq(ns, 1, Len(ns) - 1)

C14_Witness ==
    /\ HasParsed
    /\ OrderIndexes = <<1, 3, 2>>

(* C15: when the validator reports the document valid, the subtopics the   *)
(* parser returns for it have order_index 1, 2, ..., in list order.         *)
C15_ValidGivesContiguous ==
    (Returned /\ HasParsed /\ Report.is_valid) =>
        \A i \in 1..Len(Lecture.subtopics) : Lecture.subtopics[i].order_index = i

C15_Witness ==
    /\ Returned
    /\ HasParsed
    /\ Report.is_valid
    /\ OrderIndexes = <<1, 2>>

(* C16: every subtopic of the returned lecture has a non-empty title, also *)
(* one whose heading is only a bracketed annotation and one whose body is   *)
(* empty.                                                                   *)
C16_SubtopicTitleNonEmpty ==
    HasParsed =>
        \A k \in 1..Len(Lecture.subtopics) : Lecture.subtopics[k].title # <<>>

(* A level-2 heading starts at i: a line that begins with exactly two '#'  *)
(* (a third '#' makes it a level-3 heading) followed by text.               *)
Level2At(b, i) ==
    /\ i = 1 \/ b[i - 1] = "\n"
    /\ i + 1 <= Len(b)
    /\ b[i] = "#"
    /\ b[i + 1] = "#"
    /\ i + 2 <= Len(b) => b[i + 2] # "#"
    /\ strip(SubSeq(b, i + 2, LineEnd(b, i) - 1)) # <<>>

(* The title the three rules give to a section with body b and number n. *)
ExpectedTitle(b, n) ==
    LET hs == {i \in 1..Len(b) : Level2At(b, i)}
        first == strip(SubSeq(b, 1, LineEnd(b, 1) - 1))
    IN  IF hs # {}
        THEN strip(re_sub_brackets(strip(SubSeq(b, Min(hs) + 2, LineEnd(b, Min(hs)) - 1)), 1))
        ELSE IF first # <<>> /\ Len(first) < 100 THEN first
        ELSE <<"S","u","b","t","o","p","i","c"," ">> \o str(n)

(* C17: a subtopic's title is (1) the text of the first level-2 heading of *)
(* its body, annotations removed and trimmed; (2) else the first line of    *)
(* the body when that is non-empty and shorter than 100 characters; (3)     *)
(* else "Subtopic {order_index}".  A '###' line is not a level-2 heading.   *)
C17_TitlePriority ==
    HasParsed =>
        \A k \in 1..Len(Lecture.subtopics) :
            Lecture.subtopics[k].title =
                ExpectedTitle(Lecture.subtopics[k].content, Lecture.subtopics[k].order_index)

----------------------------------------------------------------------------
(* Vocabulary of the duration properties: a section body and the minutes   *)
(* _estimate_duration returned for it.                                      *)

Estimated == duration # <<>>

Minutes == duration[1]

StartsWith(b, t) == Len(b) >= Len(t) /\ SubSeq(b, 1, Len(t)) = t

(* The body carries no bracketed annotation at all. *)
NoAnnotation(b) == \A i \in 1..Len(b) : b[i] # "["

(* Whitespace-separated words of b, counted at the last character of each. *)
WordsIn(b) ==
    Cardinality({i \in 1..Len(b) : ~IsSpace(b[i]) /\ (i = Len(b) \/ IsSpace(b[i + 1]))})

(* C18 as stated: the minutes of every section are between 5 and 60, also  *)
(* for a section annotated '[0 min]' or '[120 min]'.                         *)
C18_DurationInRange ==
    Estimated => (5 <= Minutes /\ Minutes <= 60)

(* C18, amended: the minutes of a section without an annotation are        *)
(* between 5 and 60; an annotated section gets the annotated number as      *)
(* written, 0 for '[0 min]' and 120 for '[120 min]'.                         *)
C18_DurationInRangeUnlessAnnotated ==
    Estimated =>
        /\ NoAnnotation(body) => (5 <= Minutes /\ Minutes <= 60)
        /\ StartsWith(body, Tag0) => Minutes = 0
        /\ StartsWith(body, Tag12) => Minutes = 12
        /\ StartsWith(body, Tag120) => Minutes = 120

C18_Witness ==
    /\ Estimated
    /\ StartsWith(body, Tag120)
    /\ WordsIn(body) > 1
    /\ Minutes = 120

(* C19: a section without an annotation gets                               *)
(* min(60, max(5, floor(words / 100) * 5)) minutes, words being its number  *)
(* of whitespace-separated words; fewer than 200 words give 5.              *)
C19_WordCountFormula ==
    (Estimated /\ NoAnnotation(body)) =>
        LET raw == (WordsIn(body) \div 100) * 5
            floored == IF raw < 5 THEN 5 ELSE raw
        IN  /\ Minutes = IF floored > 60 THEN 60 ELSE floored
            /\ WordsIn(body) < 200 => Minutes = 5

C19_Witness ==
    /\ Estimated
    /\ NoAnnotation(body)
    /\ WordsIn(body) = 1250
    /\ Minutes = 60

(* C20 as stated: without an annotation 150 words give 5 minutes and 1000  *)
(* words give 60, the cap.                                                  *)
C20_Examples ==
    (Estimated /\ NoAnnotation(body)) =>
        /\ WordsIn(body) = 150 => Minutes = 5
        /\ WordsIn(body) = 1000 => Minutes = 60

(* C20, amended: without an annotation 150 words give 5 minutes and 1000   *)
(* words give 50; the cap of 60 is reached from 1200 words on and not       *)
(* before.                                                                  *)
C20_ExamplesCapFrom1200 ==
    (Estimated /\ NoAnnotation(body)) =>
        /\ WordsIn(body) = 150 => Minutes = 5
        /\ WordsIn(body) = 1000 => Minutes = 50
        /\ WordsIn(body) >= 1200 <=> Minutes = 60

C20_Witness ==
    /\ Estimated
    /\ NoAnnotation(body)
    /\ WordsIn(body) = 1000
    /\ Minutes = 50

(* The number an annotation of the bodies stands for. *)
TagValue(t) == CASE t = Tag0 -> 0 [] t = Tag12 -> 12 [] t = Tag120 -> 120

(* Annotation t stands in b at the first '[' of b. *)
IsFirstAnnotation(b, t) ==
    LET p == Min({i \in 1..Len(b) : b[i] = "["})
    IN  p + Len(t) - 1 <= Len(b) /\ SubSeq(b, p, p + Len(t) - 1) = t

(* C21: a section body with a '[N min]' annotation anywhere gets N minutes, *)
(* the N of the first annotation, whatever its number of words.             *)
C21_AnnotationWins ==
    (Estimated /\ ~NoAnnotation(body)) =>
        \A t \in {Tag0, Tag12, Tag120} : IsFirstAnnotation(body, t) => Minutes = TagValue(t)

(* 1000 words between '[12 min]' and a later '[120 min]'. *)
C21_Witness ==
    /\ Estimated
    /\ Len(body) > 2000
    /\ StartsWith(body, Tag12)
    /\ SubSeq(body, Len(body) - Len(Tag120) + 1, Len(body)) = Tag120
    /\ Minutes = 12

----------------------------------------------------------------------------
(* Vocabulary of the extraction properties, stated on the lines of a body. *)

(* The lines of b, without their newlines. *)
RECURSIVE SplitLines(_)
SplitLines(b) ==
    IF b = <<>> THEN <<>>
    ELSE LET e == LineEnd(b, 1)
         IN  <<SubSeq(b, 1, e - 1)>> \o (IF e >= Len(b) THEN <<>> ELSE SplitLines(SubSeq(b, e + 1, Len(b))))

(* A line of three backticks, with or without a language tag after them. *)
IsFenceLine(l) == StartsWith(l, <<Backtick, Backtick, Backtick>>)

(* Lines joined by newlines. *)
RECURSIVE JoinLines(_)
JoinLines(ls) ==
    IF ls = <<>> THEN <<>>
    ELSE IF Len(ls) = 1 THEN ls[1]
    ELSE ls[1] \o <<"\n">> \o JoinLines(Tail(ls))

(* The inner texts of the fenced blocks among the lines ls, in order: each *)
(* block runs from a fence line to the next fence line.                     *)
RECURSIVE FencedBlocks(_)
FencedBlocks(ls) ==
    LET opens == {o \in 1..Len(ls) : IsFenceLine(ls[o])}
    IN  IF opens = {} THEN <<>>
        ELSE LET o == Min(opens)
                 closes == {c \in (o + 1)..Len(ls) : IsFenceLine(ls[c])}
             IN  IF closes = {} THEN <<>>
                 ELSE <<JoinLines(SubSeq(ls, o + 1, Min(closes) - 1))>>
                          \o FencedBlocks(SubSeq(ls, Min(closes) + 1, Len(ls)))

HasExamples == examples # <<>>

Examples == examples[1]

(* C22: every fenced code block of a section body, whatever language tag   *)
(* its opening line carries, gives one example, in document order; the k-th *)
(* example has the trimmed inner text as code and "Code example k" as       *)
(* explanation.                                                             *)
C22_OneExamplePerBlock ==
    HasExamples =>
        LET blocks == FencedBlocks(SplitLines(body))
        IN  Examples = [k \in 1..Len(blocks) |->
                           [code |-> strip(blocks[k]),
                            explanation |-> <<"C","o","d","e"," ","e","x","a","m","p","l","e"," ">> \o str(k)]]

(* The quoted spans of the lines of ls that a '>' introduces, in order. *)
RECURSIVE QuotedSpans(_)
QuotedSpans(ls) ==
    IF ls = <<>> THEN <<>>
    ELSE LET l == ls[1]
             qs == {i \in 1..Len(l) : l[i] = "\""}
         IN  (IF l # <<>> /\ l[1] = ">" /\ Cardinality(qs) >= 2
              THEN <<SubSeq(l, Min(qs) + 1, Max(qs) - 1)>> ELSE <<>>) \o QuotedSpans(Tail(ls))

(* The spans of ss that have at least n characters, in order. *)
RECURSIVE AtLeast(_, _)
AtLeast(ss, n) ==
    IF ss = <<>> THEN <<>>
    ELSE (IF Len(ss[1]) >= n THEN <<ss[1]>> ELSE <<>>) \o AtLeast(Tail(ss), n)

HasPrompts == inquiry_prompts # <<>>

Prompts == inquiry_prompts[1]

----------------------------------------------------------------------------
(* Vocabulary of the properties of a shared instance.                       *)

(* The report a first call on d, on a new instance, returns. *)
SoloReport(d) ==
    LET new == [errors |-> <<>>, warnings |-> <<>>, suggestions |-> <<>>]
    IN  IF strip(d) = <<>>
        THEN _build_result([new EXCEPT !.errors = <<E_EMPTY>>])
        ELSE _build_result(_validate_content_completeness(
                               _validate_subtopics(_validate_headers(new, d), d), d))

(* The report of the k-th return as its caller received it. *)
ReportAtReturn(k) ==
    [is_valid      |-> returned[k].report.is_valid,
     errors        |-> returned[k].was.errors,
     warnings      |-> returned[k].was.warnings,
     suggestions   |-> returned[k].was.suggestions,
     error_count   |-> returned[k].report.error_count,
     warning_count |-> returned[k].report.warning_count]

(* C24: validate_content carries no state between calls: every call made   *)
(* on one instance, after any earlier calls on any documents, returns the   *)
(* report a first call on its document returns.                             *)
C24_CallsIndependent ==
    \A k \in 1..Len(returned) : ReportAtReturn(k) = SoloReport(returned[k].content)

(* A document validated, another one validated, the first one again. *)
C24_Witness ==
    /\ Len(returned) = 3
    /\ returned[1].content = DocWarned
    /\ returned[2].content = DocBroken
    /\ returned[3].content = DocWarned
    /\ returned[3].was.warnings # <<>>

(* C25: when calls interleave, each still returns the report a solo call   *)
(* on its own document returns, also on a shared instance.                  *)
C25_InterleavedCallsIndependent ==
    \A k \in 1..Len(returned) :
        LET solo == SoloReport(returned[k].content)
        IN  /\ returned[k].was.errors = solo.errors
            /\ returned[k].was.warnings = solo.warnings
            /\ returned[k].was.suggestions = solo.suggestions
            /\ returned[k].report.is_valid = solo.is_valid

(* C27: a returned report never changes: the lists it refers to hold what  *)
(* they held when it was returned, whatever calls follow on the instance.   *)
C27_ReportsFrozen ==
    \A k \in 1..Len(returned) :
        /\ heap[returned[k].report.errors] = returned[k].was.errors
        /\ heap[returned[k].report.warnings] = returned[k].was.warnings
        /\ heap[returned[k].report.suggestions] = returned[k].was.suggestions

(* A report with findings, and a later call on another document finished. *)
C27_Witness ==
    /\ Len(returned) >= 2
    /\ returned[1].was.errors # <<>>
    /\ returned[1].was.suggestions # <<>>
    /\ returned[2].content # returned[1].content
    /\ heap[returned[1].report.errors] # heap[returned[2].report.errors]

----------------------------------------------------------------------------
(* Vocabulary of the completeness property: the trimmed text that follows  *)
(* the k-th marker of the validated document, up to the next marker.        *)

SectionText(k) == strip(re_split(content)[k + 1])

IsEmptyWarning(m, n) == m.text = "Subtopic $ appears to be empty" /\ m.args = <<n>>

IsEmptySuggestion(m, n) == m.text = "Add content after '# $' marker" /\ m.args = <<n>>

IsShortWarning(m, n) ==
    m.text = "Subtopic $ seems very short (less than 20 characters)" /\ m.args = <<n>>

(* C26: in the report of a non-blank document every marker with an empty   *)
(* section has the warning "Subtopic $N appears to be empty" and a          *)
(* suggestion, N being the number of that marker; every marker whose        *)
(* section has 1 to 19 characters has the 'seems very short' warning for    *)
(* its N; and the warnings leave is_valid as the errors decide it.          *)
C26_CompletenessWarnings ==
    (Returned /\ ~Blank(content)) =>
        /\ \A k \in 1..Len(Markers) :
               LET n == Markers[k]
                   len == Len(SectionText(k))
               IN  /\ len = 0 =>
                          /\ \E w \in Range(Report.warnings) : IsEmptyWarning(w, n)
                          /\ \E g \in Range(Report.suggestions) : IsEmptySuggestion(g, n)
                   /\ (1 <= len /\ len < 20) =>
                          \E w \in Range(Report.warnings) : IsShortWarning(w, n)
        /\ Report.is_valid = (Report.errors = <<>>)

(* C29: the duplicate error and the first-marker error come only together  *)
(* with the sequential-numbering error; so a document that is not blank is  *)
(* reported valid exactly when its title header has a value and its marker  *)
(* numbers, in document order, are 1..N with N >= 1.                        *)
C29_ValidExactly ==
    Returned =>
        /\ (\E e \in Range(Report.errors) : IsDupError(e) \/ IsFirstError(e))
               => \E e \in Range(Report.errors) : IsSeqError(e)
        /\ ~Blank(content) =>
               (Report.is_valid <=>
                    /\ HasTitleHeader(content)
                    /\ Len(Markers) >= 1
                    /\ Markers = OneToN(Len(Markers)))

----------------------------------------------------------------------------
(* Vocabulary of the import property.                                       *)

ImportDone == importer.pc = "done"

ToImport == importer.parsed_content[1]

(* C28: the creation calls are one lecture, then one topic, then one       *)
(* subtopic per parsed subtopic in list order, with order_index and         *)
(* examples as parsed and without the inquiry prompts; no call follows a    *)
(* failed call; the function returns True only when all 2+N calls answered  *)
(* 200 and False when one failed.                                           *)
C28_CreationOrder ==
    (importer.pc # "idle") =>
        /\ \A k \in 1..Len(posted) :
               /\ k = 1 => posted[k].url = "/teacher/lectures"
               /\ k = 2 => posted[k].url = "/teacher/topics"
               /\ k >= 3 =>
                      /\ posted[k].url = "/teacher/subtopics"
                      /\ k - 2 <= Len(ToImport.subtopics)
                      /\ posted[k].json.order_index = ToImport.subtopics[k - 2].order_index
                      /\ posted[k].json.examples = ToImport.subtopics[k - 2].examples
                      /\ "inquiry_prompts" \notin DOMAIN posted[k].json
               /\ k < Len(posted) => posted[k].outcome = "ok"
        /\ (ImportDone /\ importer.ret = <<TRUE>>) =>
               /\ Len(posted) = 2 + Len(ToImport.subtopics)
               /\ \A k \in 1..Len(posted) : posted[k].outcome = "ok"
        /\ (ImportDone /\ posted # <<>> /\ posted[Len(posted)].outcome \in {"error_status", "raises"})
               => importer.ret = <<FALSE>>

(* A lecture of two subtopics with examples and prompts, wholly created. *)
C28_Witness ==
    /\ ImportDone
    /\ importer.ret = <<TRUE>>
    /\ Len(posted) = 4
    /\ posted[3].json.examples # <<>>
    /\ ToImport.subtopics[1].inquiry_prompts # <<>>

----------------------------------------------------------------------------
(* Vocabulary of the session property.                                      *)

(* The Import button is on the page. *)
ImportOffered ==
    /\ importer.pc = "idle"
    /\ session_state.parsed_content # <<>>
    /\ session_state.validation_result # <<>>
    /\ session_state.validation_result[1].is_valid

(* C30: a validation result or a parsed lecture held in the session state  *)
(* was computed from the text now in content_input; so when Import is       *)
(* offered, the lecture it would create is the parse of that text, and      *)
(* that text validates.                                                     *)
C30_SessionResultsCurrent ==
    /\ session_state.validation_result # <<>> =>
           session_state.validation_result[1] = SoloReport(session_state.content_input)
    /\ session_state.parsed_content # <<>> =>
           session_state.parsed_content[1] = parse_content(session_state.content_input)
    /\ ImportOffered =>
           /\ session_state.parsed_content[1] = parse_content(session_state.content_input)
           /\ SoloReport(session_state.content_input).is_valid

====
